---- MODULE Spec2Model ----
(***************************************************************************)
(* The session controller of the satellite-image comparison client: the   *)
(* React component App with its helper components MapUpdater and          *)
(* MapClickEventHandler.  Every handler is one action; the effects React  *)
(* runs after the handler's render (the latitude/longitude effect of App  *)
(* and the effect of MapUpdater) are part of that action.                 *)
(*                                                                         *)
(* Numbers.  A coordinate is an integer number of sub-units; a            *)
(* micro-degree (the 6th decimal digit that toFixed(6) keeps) is Sub      *)
(* sub-units, so that a raw click coordinate can carry digits that        *)
(* toFixed(6) rounds away.                                                 *)
(*                                                                         *)
(* Optional values.  null is the empty tuple, undefined the 1-tuple       *)
(* <<"undefined">>; a coordinate pair is <<lat, lon>>, an image           *)
(* descriptor <<imageUrl, bounds, ref>> where ref names the object (the   *)
(* request whose response.json() created it).                             *)
(***************************************************************************)
EXTENDS Integers, Sequences, FiniteSets, TLC

\* ------------------------------------------------------------------ bounds

\* sub-units per micro-degree: the precision of a raw click below toFixed(6)
Sub == 2
\* requests a behaviour issues at most
MaxRequests == 2
\* computation timeouts pending at a time at most
MaxCalcTimers == 1
\* The farthest click on a wrapped copy of the world, in quarter turns
MaxQuarterTurns == 6

\* --------------------------------------------------------------- constants

FracDigits == 6
FlyToZoom == 13
DefaultCloudCover == 20

Micro == 10 ^ FracDigits
\* d degrees, and m micro-degrees, in sub-units
Deg(d) == d * Micro * Sub
Coord(m) == m * Sub

Null == <<>>
Undefined == << "undefined" >>
\* JavaScript truthiness of an optional object
Truthy(v) == v # Null /\ v # Undefined

\* ------------------------------------------------------------------- texts
\* The value of an input field: the empty string, a decimal numeral as typed
\* (as many digits as the number needs) or a numeral written by toFixed(6)
\* (always 6 decimals).  "35.4393" and "35.439300" are different strings.

EmptyText == << "empty", 0 >>
Typed(v) == << "typed", v >>
Fixed(v) == << "fixed", v >>

\* parseFloat: NaN for the empty string, else the number the numeral denotes
NaN == [nan |-> TRUE, v |-> 0]
Num(v) == [nan |-> FALSE, v |-> v]
ParseFloat(t) == IF t[1] = "empty" THEN NaN ELSE Num(t[2])
IsNaN(n) == n.nan

\* JavaScript's %: the remainder has the sign of the dividend
JsRem(a, b) == IF a >= 0 THEN a % b ELSE -((-a) % b)

\* Number.prototype.toFixed(6): the nearest multiple of a micro-degree, the
\* larger in magnitude of two equally near ones
Round6(x) ==
    LET a == IF x >= 0 THEN x ELSE -x
        q == a \div Sub
        r == a % Sub
        n == IF 2 * r >= Sub THEN q + 1 ELSE q
    IN  IF x >= 0 THEN n * Sub ELSE -(n * Sub)
ToFixed6(x) == Fixed(Round6(x))

DefaultLatitude == Typed(Coord(35439300))
DefaultLongitude == Typed(Coord(-82246500))
DefaultDate1 == "2024-09-16"
DefaultDate2 == "2024-10-12"

\* ------------------------------------------------------------------ images

ImageUrl(d) == d[1]
Bounds(d) == d[2]
Ref(d) == d[3]

\* What the service can answer with: two payloads, each with two descriptors
\* of distinct bounds.
Payloads ==
    { [image1 |-> << "a1.png", << <<35, -83>>, <<36, -82>> >> >>,
       image2 |-> << "a2.png", << <<34, -84>>, <<37, -81>> >> >>],
      [image1 |-> << "b1.png", << <<10, 10>>, <<11, 11>> >> >>,
       image2 |-> << "b2.png", << <<9, 9>>, <<12, 12>> >> >>] }

\* The object response.json() builds for a descriptor of the answer to request i
Parsed(d, i) == << d[1], d[2], i >>

VARIABLES
    latitude, longitude, date1, date2, cloudCover,
    errors, isLoading, apiError,
    image1Info, image2Info, isImage1Visible,
    mapCenter, markerPosition,
    issued, inflight,
    selectedComputations, computationResults, isCalculating, showCalculationResults,
    calcTimers,
    mapTimers, viewport,
    crashed,
    op, loaded, afterReset, input, stale

formVars == << latitude, longitude, date1, date2, cloudCover >>
imageVars == << image1Info, image2Info, isImage1Visible >>
requestVars == << errors, isLoading, apiError, issued, inflight >>
computationVars == << selectedComputations, computationResults, isCalculating,
                      showCalculationResults, calcTimers >>
vars == << latitude, longitude, date1, date2, cloudCover,
           errors, isLoading, apiError,
           image1Info, image2Info, isImage1Visible,
           mapCenter, markerPosition,
           issued, inflight,
           selectedComputations, computationResults, isCalculating,
           showCalculationResults, calcTimers,
           mapTimers, viewport,
           crashed,
           op, loaded, afterReset, input, stale >>

\* ----------------------------------------------------------------- history
\* Five variables record the past and are read by no handler: op is the
\* operation that ran last, afterReset says that the last operation of the
\* user was a reset, and loaded is what the last success response left: the
\* id and the parameters of its request and the two descriptors held after
\* it, as <<id, parameters, image 1, image 2>>.  input is the argument the
\* last operation was called with, for the operations that record it (the
\* point of a click, the checkbox of a toggle), else null.  stale says that
\* a valid submit has started a request and handleCalculate has not run since.

Recorded(name, quiet, snapshot, argument) ==
    /\ op' = name
    /\ afterReset' = quiet
    /\ loaded' = snapshot
    /\ input' = argument
    /\ stale' = CASE name = "submitValid" -> TRUE
                  [] name = "calculate" -> FALSE
                  [] OTHER -> stale
History(name, quiet, snapshot) == Recorded(name, quiet, snapshot, Null)
\* an operation of the user other than reset
User(name) == History(name, FALSE, loaded)
\* a response or a timeout
Completion(name) == History(name, afterReset, loaded)

\* -------------------------------------------------------------- validation

Fields == {"latitude", "longitude", "date1", "date2"}

\* A variant that is not the program's: the ends of the two ranges are
\* refused as well
NewErrorsOpenRange(lat, lon, d1, d2) ==
    LET latNum == ParseFloat(lat)
        lonNum == ParseFloat(lon)
    IN  [f \in Fields |->
            CASE f = "latitude" ->
                    IF IsNaN(latNum) \/ lat = EmptyText
                    THEN "Latitude is required and must be a number."
                    ELSE IF latNum.v <= Deg(-90) \/ latNum.v >= Deg(90)
                    THEN "Must be between -90 and 90."
                    ELSE "absent"
              [] f = "longitude" ->
                    IF IsNaN(lonNum) \/ lon = EmptyText
                    THEN "Longitude is required and must be a number."
                    ELSE IF lonNum.v <= Deg(-180) \/ lonNum.v >= Deg(180)
                    THEN "Must be between -180 and 180."
                    ELSE "absent"
              [] f = "date1" -> IF d1 = "" THEN "Date 1 is required." ELSE "absent"
              [] f = "date2" -> IF d2 = "" THEN "Date 2 is required." ELSE "absent"]

\* newErrors of handleSubmit: a message for each field that fails, "absent"
\* for a field the object has no key for
NewErrors(lat, lon, d1, d2) ==
    LET latNum == ParseFloat(lat)
        lonNum == ParseFloat(lon)
    IN  [f \in Fields |->
            CASE f = "latitude" ->
                    IF IsNaN(latNum) \/ lat = EmptyText
                    THEN "Latitude is required and must be a number."
                    ELSE IF latNum.v < Deg(-90) \/ latNum.v > Deg(90)
                    THEN "Must be between -90 and 90."
                    ELSE "absent"
              [] f = "longitude" ->
                    IF IsNaN(lonNum) \/ lon = EmptyText
                    THEN "Longitude is required and must be a number."
                    ELSE IF lonNum.v < Deg(-180) \/ lonNum.v > Deg(180)
                    THEN "Must be between -180 and 180."
                    ELSE "absent"
              [] f = "date1" -> IF d1 = "" THEN "Date 1 is required." ELSE "absent"
              [] f = "date2" -> IF d2 = "" THEN "Date 2 is required." ELSE "absent"]

NoErrors == [f \in Fields |-> "absent"]
\* Object.keys(errors)
Keys(e) == {f \in Fields : e[f] # "absent"}
\* errors.field is truthy: a message, not null and not a missing key
HasMessage(e, f) == e[f] # "absent" /\ e[f] # "null"

\* ------------------------------------------------- effects run after render

\* The effect of App on [latitude, longitude]: the marker and the map center
\* that result from the texts lat and lon, given the center held before.
CoordinateInRange(lat, lon) ==
    LET latNum == ParseFloat(lat)
        lonNum == ParseFloat(lon)
    IN  /\ ~IsNaN(latNum) /\ ~IsNaN(lonNum)
        /\ latNum.v >= Deg(-90) /\ latNum.v <= Deg(90)
        /\ lonNum.v >= Deg(-180) /\ lonNum.v <= Deg(180)

EffectMarker(lat, lon) ==
    IF CoordinateInRange(lat, lon)
    THEN << ParseFloat(lat).v, ParseFloat(lon).v >>
    ELSE Null

\* setMapCenter(prev => prev equals the pair ? prev : the pair)
KeepCenter(prev, latNum, lonNum) ==
    IF prev # Null /\ prev[1] = latNum /\ prev[2] = lonNum
    THEN prev
    ELSE << latNum, lonNum >>

EffectCenter(lat, lon, prev) ==
    IF CoordinateInRange(lat, lon)
    THEN KeepCenter(prev, ParseFloat(lat).v, ParseFloat(lon).v)
    ELSE prev

\* mapUpdaterBounds: the bounds of image 1 when it has some, else of image 2.
\* The pair <<bounds, ref>> stands for the bounds array of the object ref.
HasBounds(d) == Truthy(d) /\ Bounds(d) # Null
\* A variant that is not the program's: the two tests are in the other order
MapUpdaterBoundsAfterFirst(i1, i2) ==
    IF HasBounds(i2) THEN << Bounds(i2), Ref(i2) >>
    ELSE IF HasBounds(i1) THEN << Bounds(i1), Ref(i1) >>
    ELSE Null

MapUpdaterBounds(i1, i2) ==
    IF HasBounds(i1) THEN << Bounds(i1), Ref(i1) >>
    ELSE IF HasBounds(i2) THEN << Bounds(i2), Ref(i2) >>
    ELSE Null

\* A variant that is not the program's: the effect returns no cleanup, the
\* timeout set before stays armed
MapUpdaterEffectNoCleanup(timers, center, bounds, center1, bounds1, newCenter) ==
    IF newCenter \/ center1 # center \/ bounds1 # bounds
    THEN timers \cup { [center |-> center1, bounds |-> bounds1] }
    ELSE timers

\* The effect of MapUpdater on [bounds, center, map]: when a dependency is
\* another object than at the last render, the cleanup clears the pending
\* timeout and a new one is set that holds the new center and bounds.
\* newCenter says that the center is a new array even if it has equal numbers.
MapUpdaterEffect(timers, center, bounds, center1, bounds1, newCenter) ==
    IF newCenter \/ center1 # center \/ bounds1 # bounds
    THEN { [center |-> center1, bounds |-> bounds1] }
    ELSE timers

\* What the timeout of MapUpdater applies to the map
Applied(t) ==
    IF t.center # Null THEN << "flyTo", t.center, FlyToZoom >>
    ELSE IF t.bounds # Null THEN << "fitBounds", t.bounds[1] >>
    ELSE << "none" >>

\* The render that follows a handler, with the effects it runs: the handler
\* has set the texts lat1 and lon1, the marker marker1, the center center1
\* (newCenter: as a new array) and the images i1 and i2.  The effect of App
\* runs when one of the texts is another string than before, then the effect
\* of MapUpdater when one of its dependencies is another object.
Commit(lat1, lon1, marker1, center1, newCenter, i1, i2) ==
    LET coordChanged == lat1 # latitude \/ lon1 # longitude
        marker2 == IF coordChanged THEN EffectMarker(lat1, lon1) ELSE marker1
        center2 == IF coordChanged THEN EffectCenter(lat1, lon1, center1) ELSE center1
    IN  /\ latitude' = lat1
        /\ longitude' = lon1
        /\ markerPosition' = marker2
        /\ mapCenter' = center2
        /\ image1Info' = i1
        /\ image2Info' = i2
        /\ mapTimers' = MapUpdaterEffect(mapTimers,
                            mapCenter, MapUpdaterBounds(image1Info, image2Info),
                            center2, MapUpdaterBounds(i1, i2),
                            newCenter \/ center2 # center1)

\* Nothing of the coordinates, the images or the map changes
KeepView ==
    UNCHANGED << latitude, longitude, markerPosition, mapCenter,
                 image1Info, image2Info, mapTimers >>

\* ------------------------------------------------------------ form handlers

ClearError(e, f) == IF HasMessage(e, f) THEN [e EXCEPT ![f] = "null"] ELSE e

handleLatitudeChange(value) ==
    /\ ~crashed
    /\ value # latitude
    /\ errors' = ClearError(errors, "latitude")
    /\ Commit(value, longitude, markerPosition, mapCenter, FALSE, image1Info, image2Info)
    /\ User("latitudeChange")
    /\ UNCHANGED << date1, date2, cloudCover, isLoading, apiError, isImage1Visible,
                    issued, inflight, computationVars, viewport, crashed >>

handleLongitudeChange(value) ==
    /\ ~crashed
    /\ value # longitude
    /\ errors' = ClearError(errors, "longitude")
    /\ Commit(latitude, value, markerPosition, mapCenter, FALSE, image1Info, image2Info)
    /\ User("longitudeChange")
    /\ UNCHANGED << date1, date2, cloudCover, isLoading, apiError, isImage1Visible,
                    issued, inflight, computationVars, viewport, crashed >>

\* A variant that is not the program's: the field is validated as it is
\* edited
handleDate1ChangeValidates(value) ==
    /\ ~crashed
    /\ value # date1
    /\ date1' = value
    /\ errors' = IF value = "" THEN [errors EXCEPT !["date1"] = "Date 1 is required."]
                 ELSE ClearError(errors, "date1")
    /\ User("date1Change")
    /\ KeepView
    /\ UNCHANGED << date2, cloudCover, isLoading, apiError, isImage1Visible,
                    issued, inflight, computationVars, viewport, crashed >>

handleDate1Change(value) ==
    /\ ~crashed
    /\ value # date1
    /\ date1' = value
    /\ errors' = ClearError(errors, "date1")
    /\ User("date1Change")
    /\ KeepView
    /\ UNCHANGED << date2, cloudCover, isLoading, apiError, isImage1Visible,
                    issued, inflight, computationVars, viewport, crashed >>

handleDate2Change(value) ==
    /\ ~crashed
    /\ value # date2
    /\ date2' = value
    /\ errors' = ClearError(errors, "date2")
    /\ User("date2Change")
    /\ KeepView
    /\ UNCHANGED << date1, cloudCover, isLoading, apiError, isImage1Visible,
                    issued, inflight, computationVars, viewport, crashed >>

handleCloudCoverChange(value) ==
    /\ ~crashed
    /\ value # cloudCover
    /\ cloudCover' = value
    /\ User("cloudCoverChange")
    /\ KeepView
    /\ UNCHANGED << date1, date2, errors, isLoading, apiError, isImage1Visible,
                    issued, inflight, computationVars, viewport, crashed >>

\* ---------------------------------------------------------------- map click

\* A variant that is not the program's: one turn is taken off or added, with
\* no remainder first
NormalizeLongitudeOneTurn(lng) ==
    IF lng > Deg(180) THEN lng - Deg(360)
    ELSE IF lng < Deg(-180) THEN lng + Deg(360)
    ELSE lng

\* The longitude of a click folded into [-180, 180]
NormalizeLongitude(lng) ==
    IF lng > Deg(180)
    THEN LET m == JsRem(lng, Deg(360))
         IN  IF m > Deg(180) THEN m - Deg(360) ELSE m
    ELSE IF lng < Deg(-180)
    THEN LET m == JsRem(lng, Deg(360))
         IN  IF m < Deg(-180) THEN m + Deg(360) ELSE m
    ELSE lng

MapClick(lat, lng) ==
    LET clickedLat == lat
        clickedLon == NormalizeLongitude(lng)
    IN  /\ ~crashed
        /\ Commit(ToFixed6(clickedLat), ToFixed6(clickedLon),
                  << clickedLat, clickedLon >>, << clickedLat, clickedLon >>, TRUE,
                  image1Info, image2Info)
        /\ Recorded("click", FALSE, loaded, << lat, lng >>)
        /\ UNCHANGED << date1, date2, cloudCover, errors, isLoading, apiError,
                        isImage1Visible, issued, inflight, computationVars,
                        viewport, crashed >>

\* ------------------------------------------------------------------- submit

\* A variant that is not the program's: the request carries the initial cloud
\* cover, whatever the form holds
RequestInitialCloudCover(id, lat, lon, d1, d2, cc) ==
    [id |-> id,
     lat |-> lat, lon |-> lon, date1 |-> d1, date2 |-> d2,
     cloudCover |-> DefaultCloudCover,
     latNum |-> ParseFloat(lat).v, lonNum |-> ParseFloat(lon).v,
     overlapped |-> FALSE]

\* The request handleSubmit sends as the id-th one: the query parameters of
\* apiUrl, with the numbers the closure of handleSubmit keeps for the response.
\* overlapped records the past and is read by no handler: another request was
\* in flight at some moment of this one's flight.
Request(id, lat, lon, d1, d2, cc) ==
    [id |-> id,
     lat |-> lat, lon |-> lon, date1 |-> d1, date2 |-> d2, cloudCover |-> cc,
     latNum |-> ParseFloat(lat).v, lonNum |-> ParseFloat(lon).v,
     overlapped |-> FALSE]
Overlapped(r) == [r EXCEPT !.overlapped = TRUE]

\* The query parameters of a request
Parameters(r) == << r.lat, r.lon, r.date1, r.date2, r.cloudCover >>

\* A variant that is not the program's: the invalid branch leaves the marker
\* and the map center alone
InvalidSubmitKeepsView ==
    /\ apiError' = ""
    /\ Commit(latitude, longitude, markerPosition, mapCenter, FALSE, Null, Null)
    /\ showCalculationResults' = FALSE
    /\ User("submitInvalid")
    /\ UNCHANGED << isImage1Visible, isLoading, issued, inflight >>

\* handleSubmit when newErrors has an entry: nothing is sent
InvalidSubmit ==
    /\ apiError' = ""
    /\ Commit(latitude, longitude, Null, Null, FALSE, Null, Null)
    /\ showCalculationResults' = FALSE
    /\ User("submitInvalid")
    /\ UNCHANGED << isImage1Visible, isLoading, issued, inflight >>

\* A variant that is not the program's: the images of the last search stay
\* while the new request is loading
ValidSubmitKeepsImages ==
    /\ issued < MaxRequests
    /\ isImage1Visible' = TRUE
    /\ isLoading' = TRUE
    /\ apiError' = ""
    /\ Commit(latitude, longitude, markerPosition, mapCenter, FALSE,
              image1Info, image2Info)
    /\ showCalculationResults' = FALSE
    /\ issued' = issued + 1
    /\ inflight' =
          LET new == Request(issued + 1, latitude, longitude, date1, date2, cloudCover)
          IN  IF inflight = {} THEN { new }
              ELSE { Overlapped(r) : r \in inflight \cup { new } }
    /\ User("submitValid")

\* handleSubmit when newErrors is empty, up to its await
ValidSubmit ==
    /\ issued < MaxRequests
    /\ isImage1Visible' = TRUE
    /\ isLoading' = TRUE
    /\ apiError' = ""
    /\ Commit(latitude, longitude, markerPosition, mapCenter, FALSE, Null, Null)
    /\ showCalculationResults' = FALSE
    /\ issued' = issued + 1
    /\ inflight' =
          LET new == Request(issued + 1, latitude, longitude, date1, date2, cloudCover)
          IN  IF inflight = {} THEN { new }
              ELSE { Overlapped(r) : r \in inflight \cup { new } }
    /\ User("submitValid")

handleSubmit ==
    LET newErrors == NewErrors(latitude, longitude, date1, date2)
    IN  /\ ~crashed
        /\ errors' = newErrors
        /\ IF Keys(newErrors) # {} THEN InvalidSubmit ELSE ValidSubmit
        /\ UNCHANGED << date1, date2, cloudCover, selectedComputations,
                        computationResults, isCalculating, calcTimers, viewport, crashed >>

\* setImage1Info(prev => prev equals the new one ? prev : the new one)
KeepImage(prev, new) ==
    IF Truthy(prev) /\ ImageUrl(prev) = ImageUrl(new) /\ Bounds(prev) = Bounds(new)
    THEN prev
    ELSE new

\* A variant that is not the program's: the request count serves as a token
\* and the response to a request that is not the latest is dropped
ResponseOkLatestOnly(r, payload) ==
    /\ ~crashed
    /\ r \in inflight
    /\ inflight' = inflight \ {r}
    /\ IF r.id = issued
       THEN /\ Commit(latitude, longitude,
                      << r.latNum, r.lonNum >>,
                      KeepCenter(mapCenter, r.latNum, r.lonNum), FALSE,
                      KeepImage(image1Info, Parsed(payload.image1, r.id)),
                      KeepImage(image2Info, Parsed(payload.image2, r.id)))
            /\ isLoading' = FALSE
       ELSE /\ KeepView
            /\ UNCHANGED isLoading
    /\ History("responseOk", afterReset,
               << r.id, Parameters(r), image1Info', image2Info' >>)
    /\ UNCHANGED << date1, date2, cloudCover, errors, apiError, isImage1Visible,
                    issued, computationVars, viewport, crashed >>

\* The response to the request r is a success with both descriptors
ResponseOk(r, payload) ==
    /\ ~crashed
    /\ r \in inflight
    /\ inflight' = inflight \ {r}
    /\ Commit(latitude, longitude,
              << r.latNum, r.lonNum >>,
              KeepCenter(mapCenter, r.latNum, r.lonNum), FALSE,
              KeepImage(image1Info, Parsed(payload.image1, r.id)),
              KeepImage(image2Info, Parsed(payload.image2, r.id)))
    /\ isLoading' = FALSE
    /\ History("responseOk", afterReset,
               << r.id, Parameters(r), image1Info', image2Info' >>)
    /\ UNCHANGED << date1, date2, cloudCover, errors, apiError, isImage1Visible,
                    issued, computationVars, viewport, crashed >>

\* new Error(errorText || `HTTP error! Status: ${response.status}`)
StatusMessage(status) ==
    CASE status = 404 -> "HTTP error! Status: 404"
      [] status = 500 -> "HTTP error! Status: 500"
ErrorMessage(status, errorText) ==
    IF errorText # "" THEN errorText ELSE StatusMessage(status)

\* A variant that is not the program's: the catch leaves the marker on the map
FailedKeepsMarker(r, message) ==
    /\ ~crashed
    /\ r \in inflight
    /\ inflight' = inflight \ {r}
    /\ apiError' = message
    /\ Commit(latitude, longitude, markerPosition, Null, FALSE, image1Info, image2Info)
    /\ isLoading' = FALSE
    /\ Completion("responseFailed")
    /\ UNCHANGED << date1, date2, cloudCover, errors, isImage1Visible,
                    issued, computationVars, viewport, crashed >>

\* A variant that is not the program's: isLoading is cleared at the end of
\* the try and not in a finally
FailedKeepsLoading(r, message) ==
    /\ ~crashed
    /\ r \in inflight
    /\ inflight' = inflight \ {r}
    /\ apiError' = message
    /\ Commit(latitude, longitude, Null, Null, FALSE, image1Info, image2Info)
    /\ Completion("responseFailed")
    /\ UNCHANGED << date1, date2, cloudCover, errors, isLoading, isImage1Visible,
                    issued, computationVars, viewport, crashed >>

\* The catch and finally of handleSubmit
Failed(r, message) ==
    /\ ~crashed
    /\ r \in inflight
    /\ inflight' = inflight \ {r}
    /\ apiError' = message
    /\ Commit(latitude, longitude, Null, Null, FALSE, image1Info, image2Info)
    /\ isLoading' = FALSE
    /\ Completion("responseFailed")
    /\ UNCHANGED << date1, date2, cloudCover, errors, isImage1Visible,
                    issued, computationVars, viewport, crashed >>

\* The response to the request r has a status that is not ok
ResponseNotOk(r, status, errorText) == Failed(r, ErrorMessage(status, errorText))

\* fetch rejects: no response at all
FetchRejected(r) == Failed(r, "Failed to fetch")

\* data.image1 or data.image2 is missing from a success response.  The updater
\* of the missing image reads a property of undefined when the image held is
\* truthy: the render throws and React unmounts the application.
ResponseMalformed(r, payload, missing) ==
    LET prev == IF missing = "image1" THEN image1Info ELSE image2Info
    IN  /\ ~crashed
        /\ r \in inflight
        /\ inflight' = inflight \ {r}
        /\ isLoading' = FALSE
        /\ IF Truthy(prev)
           THEN /\ crashed' = TRUE
                /\ mapTimers' = {}
                /\ Completion("crash")
                /\ UNCHANGED << latitude, longitude, markerPosition, mapCenter,
                                image1Info, image2Info >>
           ELSE /\ Commit(latitude, longitude,
                          << r.latNum, r.lonNum >>,
                          KeepCenter(mapCenter, r.latNum, r.lonNum), FALSE,
                          IF missing = "image1" THEN Undefined
                          ELSE KeepImage(image1Info, Parsed(payload.image1, r.id)),
                          IF missing = "image2" THEN Undefined
                          ELSE KeepImage(image2Info, Parsed(payload.image2, r.id)))
                /\ Completion("responseMalformed")
                /\ UNCHANGED crashed
        /\ UNCHANGED << date1, date2, cloudCover, errors, apiError, isImage1Visible,
                        issued, computationVars, viewport >>

\* -------------------------------------------------------------------- reset

\* A variant that is not the program's: the selection survives the reset
handleClearAndResetKeepsSelection ==
    /\ ~crashed
    /\ Commit(latitude, longitude, markerPosition, mapCenter, FALSE, Null, Null)
    /\ isImage1Visible' = TRUE
    /\ errors' = NoErrors
    /\ apiError' = ""
    /\ isLoading' = FALSE
    /\ computationResults' = {}
    /\ isCalculating' = FALSE
    /\ showCalculationResults' = FALSE
    /\ History("reset", TRUE, loaded)
    /\ UNCHANGED << date1, date2, cloudCover, issued, inflight, calcTimers,
                    selectedComputations, viewport, crashed >>

handleClearAndReset ==
    /\ ~crashed
    /\ Commit(latitude, longitude, markerPosition, mapCenter, FALSE, Null, Null)
    /\ isImage1Visible' = TRUE
    /\ errors' = NoErrors
    /\ apiError' = ""
    /\ isLoading' = FALSE
    /\ selectedComputations' = << >>
    /\ computationResults' = {}
    /\ isCalculating' = FALSE
    /\ showCalculationResults' = FALSE
    /\ History("reset", TRUE, loaded)
    /\ UNCHANGED << date1, date2, cloudCover, issued, inflight, calcTimers,
                    viewport, crashed >>

\* The button that shows or hides image 1
ToggleImage1Visible ==
    /\ ~crashed
    /\ isImage1Visible' = ~isImage1Visible
    /\ User("toggleImage1")
    /\ KeepView
    /\ UNCHANGED << date1, date2, cloudCover, requestVars, computationVars,
                    viewport, crashed >>

\* ---------------------------------------------------------------- selection

Categories ==
    << "Disaster Response & Monitoring", "Agriculture & Forestry",
       "Water Resources", "Urban & Land Use Change" >>

computationCategories(category) ==
    CASE category = "Disaster Response & Monitoring" ->
           << "Differenced Normalized Burn Ratio (dNBR)",
              "Normalized Difference Flood Index (NDFI)",
              "Building Damage Proxy Map (Simulated)",
              "Landslide Susceptibility Index (Simulated)" >>
      [] category = "Agriculture & Forestry" ->
           << "NDVI (Normalized Difference Vegetation Index)",
              "EVI (Enhanced Vegetation Index)",
              "NDMI (Normalized Difference Moisture Index)",
              "Chlorophyll Index (Simulated)" >>
      [] category = "Water Resources" ->
           << "NDWI (Normalized Difference Water Index - Surface Water)",
              "Modified Normalized Difference Water Index (MNDWI)",
              "Turbidity/Sedimentation Index (Simulated)" >>
      [] category = "Urban & Land Use Change" ->
           << "Normalized Difference Built-up Index (NDBI)",
              "Impervious Surface Change Detection (Simulated)",
              "Urban Heat Island (LST Difference - Simulated)",
              "Green Space Monitoring (Simulated)" >>

Range(seq) == {seq[k] : k \in 1..Len(seq)}
Includes(seq, x) == x \in Range(seq)
\* prev.filter(keep)
RECURSIVE Filter(_, _)
Filter(seq, drop) ==
    IF seq = << >> THEN << >>
    ELSE IF Head(seq) \in drop THEN Filter(Tail(seq), drop)
    ELSE << Head(seq) >> \o Filter(Tail(seq), drop)
\* [...new Set(seq)]: each element once, in the order of its first occurrence
RECURSIVE Dedup(_)
Dedup(seq) ==
    IF seq = << >> THEN << >>
    ELSE << Head(seq) >> \o Dedup(Filter(Tail(seq), {Head(seq)}))

\* A variant that is not the program's: some() in the place of every()
CategoryCheckedSome(category, selected) ==
    \E k \in 1..Len(computationCategories(category)) :
        Includes(selected, computationCategories(category)[k])

\* The checked state the category checkbox shows
CategoryChecked(category, selected) ==
    \A k \in 1..Len(computationCategories(category)) :
        Includes(selected, computationCategories(category)[k])

\* A variant that is not the program's: the items of the category are
\* appended without new Set(...)
handleCategoryCheckboxChangeNoSet(category, checked) ==
    LET computationsInCategory == computationCategories(category)
    IN  /\ ~crashed
        /\ selectedComputations' =
              IF checked
              THEN selectedComputations \o computationsInCategory
              ELSE Filter(selectedComputations, Range(computationsInCategory))
        /\ showCalculationResults' = FALSE
        /\ Recorded("categoryToggle", FALSE, loaded, << category, checked >>)
        /\ KeepView
        /\ UNCHANGED << date1, date2, cloudCover, requestVars, isImage1Visible,
                        computationResults, isCalculating, calcTimers, viewport, crashed >>

handleCategoryCheckboxChange(category, checked) ==
    LET computationsInCategory == computationCategories(category)
    IN  /\ ~crashed
        /\ selectedComputations' =
              IF checked
              THEN Dedup(selectedComputations \o computationsInCategory)
              ELSE Filter(selectedComputations, Range(computationsInCategory))
        /\ showCalculationResults' = FALSE
        /\ Recorded("categoryToggle", FALSE, loaded, << category, checked >>)
        /\ KeepView
        /\ UNCHANGED << date1, date2, cloudCover, requestVars, isImage1Visible,
                        computationResults, isCalculating, calcTimers, viewport, crashed >>

\* A variant that is not the program's: the results stay as they are shown
handleComputationChangeKeepsShown(value, checked) ==
    /\ ~crashed
    /\ selectedComputations' =
          IF checked
          THEN Append(selectedComputations, value)
          ELSE Filter(selectedComputations, {value})
    /\ Recorded("itemToggle", FALSE, loaded, << value, checked >>)
    /\ KeepView
    /\ UNCHANGED << date1, date2, cloudCover, requestVars, isImage1Visible,
                    computationResults, isCalculating, showCalculationResults,
                    calcTimers, viewport, crashed >>

handleComputationChange(value, checked) ==
    /\ ~crashed
    /\ selectedComputations' =
          IF checked
          THEN Append(selectedComputations, value)
          ELSE Filter(selectedComputations, {value})
    /\ showCalculationResults' = FALSE
    /\ Recorded("itemToggle", FALSE, loaded, << value, checked >>)
    /\ KeepView
    /\ UNCHANGED << date1, date2, cloudCover, requestVars, isImage1Visible,
                    computationResults, isCalculating, calcTimers, viewport, crashed >>

\* -------------------------------------------------------------- computation

\* The substrings handleCalculate looks for, in the order of its else-if
\* chain, each with the key of results it writes
Needles ==
    << << "dNBR", "dNBR" >>,
       << "NDFI", "NDFI" >>,
       << "Building Damage Proxy Map", "buildingDamage" >>,
       << "Landslide Susceptibility Index", "landslideSusceptibility" >>,
       << "NDVI", "NDVI" >>,
       << "EVI", "EVI" >>,
       << "NDMI", "NDMI" >>,
       << "Chlorophyll Index", "ChlorophyllIndex" >>,
       << "NDWI (Normalized Difference Water Index - Surface Water)", "NDWI_Surface" >>,
       << "MNDWI", "MNDWI" >>,
       << "Turbidity/Sedimentation Index", "Turbidity" >>,
       << "NDBI", "NDBI" >>,
       << "Impervious Surface Change Detection", "imperviousChange" >>,
       << "Urban Heat Island", "urbanHeatIsland" >>,
       << "Green Space Monitoring", "greenSpaceChange" >> >>

\* comp.includes(needle), for the names of the catalog: the needles that
\* occur in each name
Occurring(comp) ==
    CASE comp = "Differenced Normalized Burn Ratio (dNBR)" -> {"dNBR"}
      [] comp = "Normalized Difference Flood Index (NDFI)" -> {"NDFI"}
      [] comp = "Building Damage Proxy Map (Simulated)" -> {"Building Damage Proxy Map"}
      [] comp = "Landslide Susceptibility Index (Simulated)" ->
            {"Landslide Susceptibility Index"}
      [] comp = "NDVI (Normalized Difference Vegetation Index)" -> {"NDVI"}
      [] comp = "EVI (Enhanced Vegetation Index)" -> {"EVI"}
      [] comp = "NDMI (Normalized Difference Moisture Index)" -> {"NDMI"}
      [] comp = "Chlorophyll Index (Simulated)" -> {"Chlorophyll Index"}
      [] comp = "NDWI (Normalized Difference Water Index - Surface Water)" ->
            {"NDWI (Normalized Difference Water Index - Surface Water)"}
      [] comp = "Modified Normalized Difference Water Index (MNDWI)" -> {"MNDWI"}
      [] comp = "Turbidity/Sedimentation Index (Simulated)" ->
            {"Turbidity/Sedimentation Index"}
      [] comp = "Normalized Difference Built-up Index (NDBI)" -> {"NDBI"}
      [] comp = "Impervious Surface Change Detection (Simulated)" ->
            {"Impervious Surface Change Detection"}
      [] comp = "Urban Heat Island (LST Difference - Simulated)" -> {"Urban Heat Island"}
      [] comp = "Green Space Monitoring (Simulated)" -> {"Green Space Monitoring"}
      [] OTHER -> {}

\* The first branch of the chain that comp enters: its key, or "" for none
RECURSIVE FirstMatch(_, _)
FirstMatch(comp, k) ==
    IF k > Len(Needles) THEN ""
    ELSE IF Needles[k][1] \in Occurring(comp) THEN Needles[k][2]
    ELSE FirstMatch(comp, k + 1)
\* A variant that is not the program's: the branch of the surface water
\* index looks for 'NDWI', which the name of the modified index contains too
ResultKeyShortNeedle(comp) ==
    IF comp = "Modified Normalized Difference Water Index (MNDWI)"
    THEN "NDWI_Surface"
    ELSE FirstMatch(comp, 1)

ResultKey(comp) == FirstMatch(comp, 1)

\* Math.random() is sample / RandUnit; a sample is in 0 .. RandUnit - 1
RandUnit == 10 ^ 5

\* x.toFixed(digits) of x given in millionths: in units of 10^-digits
ToFixed(x, digits) ==
    LET step == 10 ^ (6 - digits)
        a == IF x >= 0 THEN x ELSE -x
        n == IF 2 * (a % step) >= step THEN a \div step + 1 ELSE a \div step
    IN  IF x >= 0 THEN n ELSE -n

\* Math.random() * factor + offset in millionths, factor10 = 10 * factor
Scaled(sample, factor10, offset) == sample * factor10 + offset

\* The value handleCalculate writes under key, from one draw of Math.random()
SimValue(key, sample) ==
    CASE key = "dNBR" -> << "number", ToFixed(Scaled(sample, 15, -500000), 4) >>
      [] key = "NDFI" -> << "number", ToFixed(Scaled(sample, 8, 100000), 4) >>
      [] key = "buildingDamage" ->
            << "Estimated % structural damage detected.",
               (sample * 20) \div RandUnit + 5 >>
      [] key = "landslideSusceptibility" ->
            << IF sample * 10 < 3 * RandUnit THEN "Low"
               ELSE IF sample * 10 < 7 * RandUnit THEN "Medium"
               ELSE "High" >>
      [] key = "NDVI" -> << "number", ToFixed(Scaled(sample, 20, -1000000), 4) >>
      [] key = "EVI" -> << "number", ToFixed(Scaled(sample, 8, 100000), 4) >>
      [] key = "NDMI" -> << "number", ToFixed(Scaled(sample, 15, -500000), 4) >>
      [] key = "ChlorophyllIndex" ->
            << "number", ToFixed(Scaled(sample, 5, 200000), 4) >>
      [] key = "NDWI_Surface" -> << "number", ToFixed(Scaled(sample, 15, -500000), 4) >>
      [] key = "MNDWI" -> << "number", ToFixed(Scaled(sample, 15, -500000), 4) >>
      [] key = "Turbidity" -> << "number", ToFixed(Scaled(sample, 4, 50000), 4) >>
      [] key = "NDBI" -> << "number", ToFixed(Scaled(sample, 12, -600000), 4) >>
      [] key = "imperviousChange" ->
            LET change == ToFixed(Scaled(sample, 200, -10000000), 2)
            IN  << "% in impervious surface",
                   IF change >= 0 THEN change ELSE -change,
                   IF change > 0 THEN "Increase" ELSE "Decrease" >>
      [] key = "urbanHeatIsland" ->
            << "C hotter in urban core (Simulated)",
               ToFixed(Scaled(sample, 50, 1000000), 2) >>
      [] key = "greenSpaceChange" ->
            LET greenChange == ToFixed(Scaled(sample, 150, -7000000), 2)
            IN  << "% in green space cover",
                   IF greenChange >= 0 THEN greenChange ELSE -greenChange,
                   IF greenChange > 0 THEN "Increase" ELSE "Decrease" >>

\* The keys the two nested forEach loops write for the selection selected
ResultKeys(selected) == {ResultKey(selected[k]) : k \in 1..Len(selected)} \ {""}

\* The results object: a set of <<key, value>> with one pair for each key,
\* its value from the last draw made for that key
Results(selected, draw) == { << key, SimValue(key, draw[key]) >> : key \in ResultKeys(selected) }

handleCalculate ==
    /\ ~crashed
    /\ isCalculating' = TRUE
    /\ computationResults' = {}
    /\ calcTimers' = Append(calcTimers, selectedComputations)
    /\ User("calculate")
    /\ KeepView
    /\ UNCHANGED << date1, date2, cloudCover, requestVars, isImage1Visible,
                    selectedComputations, showCalculationResults, viewport, crashed >>

RemoveAt(seq, k) == SubSeq(seq, 1, k - 1) \o SubSeq(seq, k + 1, Len(seq))

\* A variant that is not the program's: the results are added to those that
\* are published, { ...prev, ...results }
CalculationDoneMerges(k, draw) ==
    /\ ~crashed
    /\ k \in 1..Len(calcTimers)
    /\ computationResults' =
          { p \in computationResults : p[1] \notin ResultKeys(calcTimers[k]) }
            \cup Results(calcTimers[k], draw)
    /\ isCalculating' = FALSE
    /\ showCalculationResults' = TRUE
    /\ calcTimers' = RemoveAt(calcTimers, k)
    /\ Recorded("calculationDone", afterReset, loaded, calcTimers[k])
    /\ KeepView
    /\ UNCHANGED << date1, date2, cloudCover, requestVars, isImage1Visible,
                    selectedComputations, viewport, crashed >>

\* The timeout of handleCalculate, with the selection its closure holds
CalculationDone(k, draw) ==
    /\ ~crashed
    /\ k \in 1..Len(calcTimers)
    /\ computationResults' = Results(calcTimers[k], draw)
    /\ isCalculating' = FALSE
    /\ showCalculationResults' = TRUE
    /\ calcTimers' = RemoveAt(calcTimers, k)
    /\ Recorded("calculationDone", afterReset, loaded, calcTimers[k])
    /\ KeepView
    /\ UNCHANGED << date1, date2, cloudCover, requestVars, isImage1Visible,
                    selectedComputations, viewport, crashed >>

\* ----------------------------------------------------------------- viewport

\* A variant that is not the program's: the timeout reports the center it
\* applied back to the state as a new array, and the effect runs again
MapUpdaterTimeoutSetsCenter(t) ==
    /\ ~crashed
    /\ t \in mapTimers
    /\ viewport' = IF Applied(t) = << "none" >> THEN viewport ELSE Applied(t)
    /\ mapCenter' = t.center
    /\ mapTimers' = IF t.center # Null
                    THEN { [center |-> t.center, bounds |-> t.bounds] }
                    ELSE mapTimers \ {t}
    /\ Completion("mapUpdate")
    /\ UNCHANGED << formVars, imageVars, requestVars, computationVars,
                    markerPosition, crashed >>

\* The timeout of MapUpdater: invalidateSize, then flyTo or fitBounds
MapUpdaterTimeout(t) ==
    /\ ~crashed
    /\ t \in mapTimers
    /\ mapTimers' = mapTimers \ {t}
    /\ viewport' = IF Applied(t) = << "none" >> THEN viewport ELSE Applied(t)
    /\ Completion("mapUpdate")
    /\ UNCHANGED << formVars, imageVars, requestVars, computationVars,
                    mapCenter, markerPosition, crashed >>

\* ------------------------------------------------------------ specification

Init ==
    /\ latitude = DefaultLatitude
    /\ longitude = DefaultLongitude
    /\ date1 = DefaultDate1
    /\ date2 = DefaultDate2
    /\ cloudCover = DefaultCloudCover
    /\ errors = NoErrors
    /\ isLoading = FALSE
    /\ apiError = ""
    /\ image1Info = Null
    /\ image2Info = Null
    /\ isImage1Visible = TRUE
    /\ markerPosition = EffectMarker(DefaultLatitude, DefaultLongitude)
    /\ mapCenter = EffectCenter(DefaultLatitude, DefaultLongitude, Null)
    /\ issued = 0
    /\ inflight = {}
    /\ selectedComputations = << >>
    /\ computationResults = {}
    /\ isCalculating = FALSE
    /\ showCalculationResults = FALSE
    /\ calcTimers = << >>
    /\ mapTimers = MapUpdaterEffect({}, Null, Null,
                       EffectCenter(DefaultLatitude, DefaultLongitude, Null), Null, FALSE)
    /\ viewport = << "initial" >>
    /\ crashed = FALSE
    /\ op = "mount"
    /\ loaded = Null
    /\ afterReset = FALSE
    /\ input = Null
    /\ stale = FALSE

\* What the user types and where the user clicks
LatitudeInputs == {DefaultLatitude, EmptyText}
Date1Inputs == {DefaultDate1, ""}
CloudCoverInputs == {DefaultCloudCover, 50}
ClickPoints == { << Coord(10123456) + 1, Deg(200) + 1 >> }
\* What the service answers
ErrorResponses == { << 500, "" >>, << 404, "No images found" >> }
\* The draws of Math.random()
Samples == {0, RandUnit - 1}
\* The categories the user toggles
ToggledCategories == { "Water Resources" }
\* The items the user toggles
ToggledItems == { "NDVI (Normalized Difference Vegetation Index)" }

\* The request orchestrator: a date and the cloud cover of the form, submit,
\* every answer of the service and reset.  handleSubmit and
\* handleClearAndReset run whenever they are called, whatever the buttons show.
Next ==
    \/ \E v \in Date1Inputs : handleDate1Change(v)
    \/ \E v \in CloudCoverInputs : handleCloudCoverChange(v)
    \/ handleSubmit
    \/ \E r \in inflight, p \in Payloads : ResponseOk(r, p)
    \/ \E r \in inflight, p \in Payloads, m \in {"image1", "image2"} :
          ResponseMalformed(r, p, m)
    \/ \E r \in inflight, e \in ErrorResponses : ResponseNotOk(r, e[1], e[2])
    \/ \E r \in inflight : FetchRejected(r)
    \/ handleClearAndReset

Spec == Init /\ [][Next]_vars

\* The clicks on the map, on the world and on its wrapped copies: every
\* quarter turn and 20 degrees on both sides of it, each with the nearest
\* values on both sides
ClickLatitudes == { Coord(10123456) + 1, Deg(-45) }
ClickLongitudes ==
    { Deg(90 * q + o) + d :
        q \in -MaxQuarterTurns..MaxQuarterTurns, o \in {-20, 0, 20}, d \in {-1, 0, 1} }

NextClick ==
    \E lat \in ClickLatitudes, lng \in ClickLongitudes : MapClick(lat, lng)

SpecClick == Init /\ [][NextClick]_vars

\* A variant that is not the program's: the section is rendered outside the
\* guard on the images
ComputationSectionShownUnguarded == TRUE

\* The section of the computations is rendered when both images are there
ComputationSectionShown == Truthy(image1Info) /\ Truthy(image2Info)

\* The user at the rendered page: the controls that are there and enabled.
\* Find Images is disabled while a request is loading; Reset and the section
\* of the computations are rendered when both images are there; Calculate is
\* disabled on an empty selection and while isCalculating.  The timeouts of
\* handleCalculate have the same delay and run in the order they were armed;
\* one draw of Math.random() stands for all the draws of a run.
MaxPending == MaxCalcTimers + 1

NextUser ==
    \/ \E v \in Date1Inputs : handleDate1Change(v)
    \/ ~isLoading /\ handleSubmit
    \/ \E r \in inflight, p \in Payloads : ResponseOk(r, p)
    \/ \E r \in inflight : FetchRejected(r)
    \/ Truthy(image1Info) /\ Truthy(image2Info) /\ handleClearAndReset
    \/ /\ ComputationSectionShown
       /\ \E v \in ToggledItems :
             handleComputationChange(v, ~Includes(selectedComputations, v))
    \/ /\ ComputationSectionShown
       /\ \E c \in ToggledCategories :
             handleCategoryCheckboxChange(c, ~CategoryChecked(c, selectedComputations))
    \/ /\ ComputationSectionShown
       /\ selectedComputations # << >>
       /\ ~isCalculating
       /\ Len(calcTimers) < MaxPending
       /\ handleCalculate
    \/ /\ calcTimers # << >>
       /\ \E s \in Samples :
             CalculationDone(1, [key \in ResultKeys(calcTimers[1]) |-> s])

SpecUser == Init /\ [][NextUser]_vars

\* The runs at the rendered page: a pair of images is loaded, then item
\* toggles, category toggles, Calculate and the timeout of a run, in any
\* order the enabled controls allow.
NextRuns ==
    \/ ~isLoading /\ handleSubmit
    \/ \E r \in inflight, p \in Payloads : ResponseOk(r, p)
    \/ /\ ComputationSectionShown
       /\ \E v \in ToggledItems :
             handleComputationChange(v, ~Includes(selectedComputations, v))
    \/ /\ ComputationSectionShown
       /\ \E c \in ToggledCategories :
             handleCategoryCheckboxChange(c, ~CategoryChecked(c, selectedComputations))
    \/ /\ ComputationSectionShown
       /\ selectedComputations # << >>
       /\ ~isCalculating
       /\ handleCalculate
    \/ /\ calcTimers # << >>
       /\ \E s \in Samples :
             CalculationDone(1, [key \in ResultKeys(calcTimers[1]) |-> s])

SpecRuns == Init /\ [][NextRuns]_vars

\* The form at the rendered page: the user edits a date and presses Find
\* Images, which is disabled while a request is loading; the service answers
\* with the images, with an error status, or not at all.
NextForm ==
    \/ \E v \in Date1Inputs : handleDate1Change(v)
    \/ ~isLoading /\ handleSubmit
    \/ \E r \in inflight, p \in Payloads : ResponseOk(r, p)
    \/ \E r \in inflight, e \in ErrorResponses : ResponseNotOk(r, e[1], e[2])
    \/ \E r \in inflight : FetchRejected(r)

SpecForm == Init /\ [][NextForm]_vars

\* The catalog: a pair of images is loaded, then the user composes a
\* selection from the four categories and one item, starts a run on it and
\* waits for its results before the next change.
NextCatalog ==
    \/ ~ComputationSectionShown /\ ~isLoading /\ handleSubmit
    \/ \E r \in inflight, p \in Payloads : ResponseOk(r, p)
    \/ /\ ComputationSectionShown
       /\ ~isCalculating
       /\ \E c \in Range(Categories) :
             handleCategoryCheckboxChange(c, ~CategoryChecked(c, selectedComputations))
    \/ /\ ComputationSectionShown
       /\ ~isCalculating
       /\ \E v \in ToggledItems :
             handleComputationChange(v, ~Includes(selectedComputations, v))
    \/ /\ ComputationSectionShown
       /\ selectedComputations # << >>
       /\ ~isCalculating
       /\ handleCalculate
    \/ /\ calcTimers # << >>
       /\ \E s \in Samples :
             CalculationDone(1, [key \in ResultKeys(calcTimers[1]) |-> s])

SpecCatalog == Init /\ [][NextCatalog]_vars

\* The selection: a pair of images is loaded, then the checkboxes of two
\* categories and of three of their items.  A checkbox is controlled: a
\* click on it asks for the opposite of what it shows.
SelectCategories == { "Agriculture & Forestry", "Water Resources" }
SelectItems ==
    { "NDVI (Normalized Difference Vegetation Index)",
      "Chlorophyll Index (Simulated)",
      "Modified Normalized Difference Water Index (MNDWI)" }

NextSelect ==
    \/ handleSubmit
    \/ \E r \in inflight, p \in Payloads : ResponseOk(r, p)
    \/ /\ ComputationSectionShown
       /\ \E c \in SelectCategories :
             handleCategoryCheckboxChange(c, ~CategoryChecked(c, selectedComputations))
    \/ /\ ComputationSectionShown
       /\ \E v \in SelectItems :
             handleComputationChange(v, ~Includes(selectedComputations, v))

SpecSelect == Init /\ [][NextSelect]_vars

\* The service answers: some request in flight gets its response or its
\* rejection
Respond ==
    \E r \in inflight :
        \/ \E p \in Payloads : ResponseOk(r, p)
        \/ \E p \in Payloads, m \in {"image1", "image2"} : ResponseMalformed(r, p, m)
        \/ \E e \in ErrorResponses : ResponseNotOk(r, e[1], e[2])
        \/ FetchRejected(r)

\* The same steps, and no request waits for ever
SpecLive == Spec /\ WF_vars(Respond)

\* The viewport: the requests together with the clicks on the map and the
\* timeout of MapUpdater.
NextView ==
    \/ \E v \in LatitudeInputs : handleLatitudeChange(v)
    \/ \E c \in ClickPoints : MapClick(c[1], c[2])
    \/ handleSubmit
    \/ \E r \in inflight, p \in Payloads : ResponseOk(r, p)
    \/ \E r \in inflight : FetchRejected(r)
    \/ \E t \in mapTimers : MapUpdaterTimeout(t)

SpecView == Init /\ [][NextView]_vars

\* The session: the requests together with the selection, the computation
\* and reset.
NextSession ==
    \/ handleSubmit
    \/ \E r \in inflight, p \in Payloads : ResponseOk(r, p)
    \/ \E r \in inflight : FetchRejected(r)
    \/ handleClearAndReset
    \/ \E v \in ToggledItems :
          handleComputationChange(v, ~Includes(selectedComputations, v))
    \/ Len(calcTimers) < MaxCalcTimers /\ handleCalculate
    \/ \E k \in 1..Len(calcTimers) :
          \E draw \in [ResultKeys(calcTimers[k]) -> Samples] : CalculationDone(k, draw)

SpecSession == Init /\ [][NextSession]_vars

\* The validator: submit on every form the user can have filled in.  The
\* form is filled before the first state: the marker and the center are
\* those the effect of App leaves (an out-of-range field typed first leaves
\* the center of the mount), and the timeout of MapUpdater has run.
FilledLatitudes ==
    { DefaultLatitude, EmptyText, Typed(Deg(90)), Typed(Deg(90) + 1),
      Typed(Deg(-90)), Typed(Deg(-90) - 1), Fixed(Coord(10123456)) }
FilledLongitudes ==
    { DefaultLongitude, EmptyText, Typed(Deg(180)), Typed(Deg(180) + 1),
      Typed(Deg(-180)), Typed(Deg(-180) - 1), Fixed(Coord(-159999999)) }
FilledDates == { DefaultDate1, DefaultDate2, "" }
FilledCloudCovers == { 1, DefaultCloudCover, 100 }

InitValidate ==
    /\ latitude \in FilledLatitudes
    /\ longitude \in FilledLongitudes
    /\ date1 \in FilledDates
    /\ date2 \in FilledDates
    /\ cloudCover \in FilledCloudCovers
    /\ errors = NoErrors
    /\ isLoading = FALSE
    /\ apiError = ""
    /\ image1Info = Null
    /\ image2Info = Null
    /\ isImage1Visible = TRUE
    /\ markerPosition = EffectMarker(latitude, longitude)
    /\ mapCenter = EffectCenter(latitude, longitude,
                       EffectCenter(DefaultLatitude, DefaultLongitude, Null))
    /\ issued = 0
    /\ inflight = {}
    /\ selectedComputations = << >>
    /\ computationResults = {}
    /\ isCalculating = FALSE
    /\ showCalculationResults = FALSE
    /\ calcTimers = << >>
    /\ mapTimers = {}
    /\ viewport = << "flyTo", mapCenter, FlyToZoom >>
    /\ crashed = FALSE
    /\ op = "edit"
    /\ loaded = Null
    /\ afterReset = FALSE
    /\ input = Null
    /\ stale = FALSE

NextValidate ==
    \/ handleSubmit
    \/ \E r \in inflight, p \in Payloads : ResponseOk(r, p)
    \/ \E r \in inflight : FetchRejected(r)

SpecValidate == InitValidate /\ [][NextValidate]_vars


\* ------------------------------------------------------------------- claims

\* What a valid input is, field by field: a number within the closed range
\* for a coordinate, a non-empty text for a date
LatitudeValid(t) == t # EmptyText /\ t[2] >= Deg(-90) /\ t[2] <= Deg(90)
LongitudeValid(t) == t # EmptyText /\ t[2] >= Deg(-180) /\ t[2] <= Deg(180)
DateValid(d) == d # ""
InvalidFields ==
    {f \in Fields :
        \/ f = "latitude" /\ ~LatitudeValid(latitude)
        \/ f = "longitude" /\ ~LongitudeValid(longitude)
        \/ f = "date1" /\ ~DateValid(date1)
        \/ f = "date2" /\ ~DateValid(date2)}
SubmitOps == {"submitInvalid", "submitValid"}
Ids(requests) == {r.id : r \in requests}

\* C1: a submit of an input with an invalid field ends with both image
\* descriptors null, the API error empty, the map center null and the marker
\* null, and the step sends nothing: the count of requests and the requests in
\* flight are as before.
C1_InvalidSubmitClears ==
    [][(op' \in SubmitOps /\ InvalidFields # {}) =>
          /\ image1Info' = Null
          /\ image2Info' = Null
          /\ apiError' = ""
          /\ mapCenter' = Null
          /\ markerPosition' = Null
          /\ issued' = issued
          /\ inflight' = inflight]_vars

\* An invalid submit that found a marker on the map, a result loaded earlier
\* and a request still in flight
C1_Witness ==
    /\ op = "submitInvalid"
    /\ InvalidFields = {"date1"}
    /\ loaded # Null
    /\ inflight # {}
    /\ markerPosition = Null
    /\ mapCenter = Null

\* C2: after a submit the error map has an entry for exactly the invalid
\* fields, for every combination of the four inputs; a first date later than
\* the second is not an error.
C2_ErrorsExactlyInvalid ==
    op \in SubmitOps => Keys(errors) = InvalidFields

\* A submit that reports a latitude just above 90 and an empty second date
\* together, and nothing for the other two fields
C2_Witness ==
    /\ op = "submitInvalid"
    /\ latitude = Typed(Deg(90) + 1)
    /\ longitude = Typed(Deg(-180))
    /\ date1 = DefaultDate2
    /\ date2 = ""
    /\ Keys(errors) = {"latitude", "date2"}

\* C3: each valid submit sends exactly one request, which carries latitude,
\* longitude, date1, date2 and cloudCover as the form holds them, and no other
\* step sends one: the count of requests is the count of valid submits.
C3_OneRequestPerValidSubmit ==
    [][IF op' \in SubmitOps /\ InvalidFields = {}
       THEN /\ issued' = issued + 1
            /\ Ids(inflight') = Ids(inflight) \cup {issued'}
            /\ \E r \in inflight' :
                  /\ r.id = issued'
                  /\ Parameters(r) = << latitude, longitude, date1, date2, cloudCover >>
       ELSE /\ issued' = issued
            /\ Ids(inflight') \subseteq Ids(inflight)]_vars

\* The second valid submit, sent with a cloud cover the user changed
C3_Witness ==
    /\ op = "submitValid"
    /\ issued = 2
    /\ cloudCover # DefaultCloudCover
    /\ \E r \in inflight : r.id = 2 /\ r.cloudCover = cloudCover


\* The two ends of a request
Loaded == Truthy(image1Info) /\ Truthy(image2Info) /\ apiError = ""
RequestFailed == apiError # ""

\* C4: when every request gets its response or its rejection, each state
\* that is loading is followed by a state that is Loaded or RequestFailed and
\* is not loading.
C4_LoadingResolves ==
    isLoading ~> (~isLoading /\ (Loaded \/ RequestFailed))


\* C5 as the specification states it: after a request fails, the error
\* message is stored, the map center and the marker are null and both image
\* descriptors are null.
C5_FailureClearsAll ==
    op = "responseFailed" =>
        /\ apiError # ""
        /\ mapCenter = Null
        /\ markerPosition = Null
        /\ image1Info = Null
        /\ image2Info = Null

\* C5: a failure stores its error message, sets the map center and the marker
\* to null and leaves both image descriptors as it found them; they are null
\* when no other request was in flight together with the failed one.
C5_FailureKeepsImages ==
    [][op' = "responseFailed" =>
          /\ apiError' # ""
          /\ mapCenter' = Null
          /\ markerPosition' = Null
          /\ image1Info' = image1Info
          /\ image2Info' = image2Info
          /\ \A r \in inflight \ inflight' :
                ~r.overlapped => image1Info' = Null /\ image2Info' = Null]_vars

\* The earlier of two requests fails after the later one has loaded its
\* images: the error is shown over the images of the later request
C5_Witness ==
    /\ op = "responseFailed"
    /\ apiError = "Failed to fetch"
    /\ markerPosition = Null
    /\ mapCenter = Null
    /\ loaded # Null
    /\ loaded[1] = 2
    /\ image1Info = loaded[3]
    /\ image2Info = loaded[4]
    /\ Truthy(image1Info)
    /\ inflight = {}


\* Two descriptors with the same content, whatever objects they are
SameContent(a, b) ==
    /\ Truthy(a)
    /\ Truthy(b)
    /\ ImageUrl(a) = ImageUrl(b)
    /\ Bounds(a) = Bounds(b)

\* C6: when a submit has succeeded and a later request with the same input
\* succeeds with a response of the same content, the descriptors held after
\* the second success are the objects held after the first one.
C6_SameResponseSameObjects ==
    [][(/\ op' = "responseOk"
        /\ loaded # Null
        /\ loaded'[1] > loaded[1]
        /\ loaded'[2] = loaded[2]
        /\ SameContent(loaded'[3], loaded[3])
        /\ SameContent(loaded'[4], loaded[4]))
       => (loaded'[3] = loaded[3] /\ loaded'[4] = loaded[4])]_vars


\* The descriptor held after the response to the request id was applied over
\* prev: the object parsed from that response, or prev itself when it has the
\* content of the response
Installed(held, prev, id) ==
    /\ Truthy(held)
    /\ Ref(held) = id \/ held = prev

\* C7: a valid submit cancels no request in flight, and a success response
\* is applied whether or not its request is the latest one: its images, its
\* marker and its center replace what the state holds.
C7_LastWriteWins ==
    [][/\ op' = "submitValid" => Ids(inflight) \subseteq Ids(inflight')
       /\ op' = "responseOk" =>
             \A r \in inflight :
                r.id \notin Ids(inflight') =>
                   /\ markerPosition' = << r.latNum, r.lonNum >>
                   /\ mapCenter' = << r.latNum, r.lonNum >>
                   /\ Installed(image1Info', image1Info, r.id)
                   /\ Installed(image2Info', image2Info, r.id)]_vars

\* Both of two requests are answered, the first one last: the images shown
\* are those of the first request
C7_Witness ==
    /\ op = "responseOk"
    /\ issued = 2
    /\ inflight = {}
    /\ apiError = ""
    /\ loaded[1] = 1
    /\ Ref(image1Info) = 1
    /\ Ref(image2Info) = 1


\* The marker and the map center of a fresh session, once its first effects
\* have run
FreshMarker == EffectMarker(DefaultLatitude, DefaultLongitude)
FreshCenter == EffectCenter(DefaultLatitude, DefaultLongitude, Null)

\* What reset sets, at its fresh-session value
ResetValues ==
    /\ image1Info = Null
    /\ image2Info = Null
    /\ isImage1Visible
    /\ errors = NoErrors
    /\ apiError = ""
    /\ ~isLoading
    /\ selectedComputations = << >>
    /\ computationResults = {}
    /\ ~isCalculating
    /\ ~showCalculationResults

\* C8 as the specification states it: the state after a reset is that of a
\* fresh session, the marker and the map center included.
C8_ResetIsFresh ==
    op = "reset" =>
        /\ ResetValues
        /\ markerPosition = FreshMarker
        /\ mapCenter = FreshCenter

\* C8: a reset sets the images, the errors, the API error, the loading flag,
\* the selection, the computation results and their visibility to their
\* fresh-session values and leaves the marker and the map center as they were.
C8_ResetKeepsMarker ==
    [][op' = "reset" =>
          /\ ResetValues'
          /\ markerPosition' = markerPosition
          /\ mapCenter' = mapCenter]_vars

\* A reset after a failed request that followed a load: the marker and the
\* map center stay null, a fresh session has them at the initial coordinate
C8_Witness ==
    /\ op = "reset"
    /\ loaded # Null
    /\ markerPosition = Null
    /\ mapCenter = Null
    /\ ResetValues

\* C9: after a reset and until the user acts again, the images are null, there
\* are no computation results, they are not shown and the error text is empty,
\* whatever request or computation timer was pending at the reset.
C9_NothingAfterReset ==
    afterReset =>
        /\ image1Info = Null
        /\ image2Info = Null
        /\ computationResults = {}
        /\ ~showCalculationResults
        /\ apiError = ""

\* C10: the map update that follows a success whose first image has bounds
\* applies fitBounds with those bounds.
C10_FitBoundsApplied ==
    [][(op = "responseOk" /\ HasBounds(image1Info) /\ op' = "mapUpdate")
       => viewport' = << "fitBounds", Bounds(image1Info) >>]_vars


\* The viewport command the current center and bounds ask for
Intent == [center |-> mapCenter, bounds |-> MapUpdaterBounds(image1Info, image2Info)]

\* C11: at most one timeout of MapUpdater is armed, and it holds the latest
\* center and bounds: a timeout armed for earlier ones is cleared and never
\* runs, so the command a map update has just applied is the latest one.
C11_OnePendingLatest ==
    /\ Cardinality(mapTimers) <= 1
    /\ \A t \in mapTimers : t = Intent
    /\ op = "mapUpdate" =>
          /\ mapTimers = {}
          /\ Applied(Intent) # << "none" >> => viewport = Applied(Intent)

\* A click made before the timeout of the mount has run: the one timeout
\* armed is the one of the click, nothing was applied to the map
C11_Witness ==
    /\ op = "click"
    /\ viewport = << "initial" >>
    /\ Cardinality(mapTimers) = 1
    /\ \A t \in mapTimers : t.center = markerPosition /\ t.center # FreshCenter


\* C12: the timeout of MapUpdater changes nothing of the session state (the
\* input fields, the marker, the map center, the images) and arms no timeout:
\* after it no viewport command is pending.
C12_ApplyingSchedulesNothing ==
    [][op' = "mapUpdate" =>
          /\ UNCHANGED << formVars, imageVars, requestVars, computationVars,
                          mapCenter, markerPosition >>
          /\ mapTimers' \subseteq mapTimers
          /\ mapTimers' # mapTimers]_vars

\* A map update that flew to the coordinate of a loaded result: the images
\* and the center are there and no timeout is armed
C12_Witness ==
    /\ op = "mapUpdate"
    /\ mapTimers = {}
    /\ Truthy(image1Info)
    /\ mapCenter # Null
    /\ viewport = << "flyTo", mapCenter, FlyToZoom >>


\* C13: the longitude a click is normalized to lies in [-180, 180] and
\* differs from the raw one by whole turns; a raw longitude within [-180, 180]
\* is kept, so normalizing twice is normalizing once; 200 gives -160 and -200
\* gives 160.  The longitude field holds the normalized value, as toFixed(6)
\* writes it.
C13_LongitudeNormalized ==
    op = "click" =>
        LET raw == input[2]
            n == NormalizeLongitude(raw)
        IN  /\ n >= Deg(-180)
            /\ n <= Deg(180)
            /\ n % Deg(360) = raw % Deg(360)
            /\ (raw >= Deg(-180) /\ raw <= Deg(180)) => n = raw
            /\ NormalizeLongitude(n) = n
            /\ raw = Deg(200) => n = Deg(-160)
            /\ raw = Deg(-200) => n = Deg(160)
            /\ longitude = ToFixed6(n)

\* A click more than one turn and a half to the west
C13_Witness ==
    /\ op = "click"
    /\ input[2] = Deg(-560)
    /\ longitude = Fixed(Deg(160))


Catalog == UNION { Range(computationCategories(c)) : c \in Range(Categories) }

NoRepeat(seq) == Cardinality(Range(seq)) = Len(seq)

\* The selection after the checkbox of one item after the other has been
\* brought to the target state: an item that is there already is left alone
RECURSIVE ToggleEach(_, _, _)
ToggleEach(prev, items, checked) ==
    IF items = << >> THEN prev
    ELSE LET value == Head(items)
             next  == IF checked = Includes(prev, value) THEN prev
                      ELSE IF checked THEN Append(prev, value)
                      ELSE Filter(prev, {value})
         IN  ToggleEach(next, Tail(items), checked)

\* C15: a category checkbox toggled to checked leaves the previous selection
\* united with the items of the category, no item twice; toggled to unchecked
\* it removes exactly the items of the category; the items of the other
\* categories stay as they were, and the selection is the one that toggling
\* each item of the category to that state gives.
C15_CategoryToggle ==
    [][op' = "categoryToggle" =>
          LET items   == computationCategories(input'[1])
              checked == input'[2]
              prev    == Range(selectedComputations)
              new     == Range(selectedComputations')
          IN  /\ checked => new = prev \cup Range(items)
              /\ ~checked => new = prev \ Range(items)
              /\ NoRepeat(selectedComputations')
              /\ \A x \in Catalog \ Range(items) : (x \in new) = (x \in prev)
              /\ Filter(selectedComputations', Range(items))
                   = Filter(selectedComputations, Range(items))
              /\ selectedComputations'
                   = ToggleEach(selectedComputations, items, checked)]_vars

\* A category with one item selected already, and an item of another
\* category, toggled to checked
C15_Witness ==
    /\ op = "categoryToggle"
    /\ input = << "Agriculture & Forestry", TRUE >>
    /\ selectedComputations =
         << "Chlorophyll Index (Simulated)",
            "Modified Normalized Difference Water Index (MNDWI)",
            "NDVI (Normalized Difference Vegetation Index)",
            "EVI (Enhanced Vegetation Index)",
            "NDMI (Normalized Difference Moisture Index)" >>

\* C16: the checkbox of a category is checked exactly when every item of the
\* category is in the selection; selecting the last missing item of a
\* category checks it, and removing one item of a fully selected category
\* unchecks it.
C16_CategoryCheckboxDerived ==
    [][/\ \A c \in Range(Categories) :
            /\ CategoryChecked(c, selectedComputations)
                 = (Range(computationCategories(c)) \subseteq Range(selectedComputations))
            /\ CategoryChecked(c, selectedComputations')
                 = (Range(computationCategories(c)) \subseteq Range(selectedComputations'))
       /\ op' = "itemToggle" =>
            \A c \in Range(Categories) :
                input'[1] \in Range(computationCategories(c)) =>
                    /\ (/\ input'[2]
                        /\ Range(computationCategories(c)) \ Range(selectedComputations)
                             = { input'[1] })
                       => CategoryChecked(c, selectedComputations')
                    /\ (/\ ~input'[2]
                        /\ CategoryChecked(c, selectedComputations))
                       => ~CategoryChecked(c, selectedComputations')]_vars

\* The last item of a category is taken out of the full category and put
\* back: the checkbox is checked again
C16_Witness ==
    /\ op = "itemToggle"
    /\ input = << "Chlorophyll Index (Simulated)", TRUE >>
    /\ CategoryChecked("Agriculture & Forestry", selectedComputations)
    /\ ~CategoryChecked("Water Resources", selectedComputations)
    /\ Includes(selectedComputations, "Modified Normalized Difference Water Index (MNDWI)")

\* C17: an item toggle and a category toggle leave the results hidden, and
\* take out of the selection nothing but what the toggle itself removes: the
\* item, or the items of the category, when the target state is unchecked,
\* and nothing when it is checked.
C17_SelectionChangeHides ==
    [][op' \in { "itemToggle", "categoryToggle" } =>
          LET own == IF op' = "itemToggle" THEN { input'[1] }
                     ELSE Range(computationCategories(input'[1]))
              removed == IF input'[2] THEN {} ELSE own
          IN  /\ showCalculationResults' = FALSE
              /\ Range(selectedComputations) \ Range(selectedComputations') \subseteq removed
              /\ Filter(selectedComputations', own) = Filter(selectedComputations, own)]_vars

\* A run over the item and the category has published its results; the
\* category is toggled off, the item stays and the results are hidden
C17_Witness ==
    /\ op = "categoryToggle"
    /\ input = << "Water Resources", FALSE >>
    /\ selectedComputations = << "NDVI (Normalized Difference Vegetation Index)" >>
    /\ Cardinality(computationResults) = 4
    /\ ~isCalculating
    /\ ~showCalculationResults

\* C18: with the user at the enabled controls, a run is started on a
\* non-empty selection and with no other run pending: at most one timeout
\* of handleCalculate is pending.
C18_OneRunPending ==
    /\ Len(calcTimers) <= 1
    /\ op = "calculate" => \A k \in 1..Len(calcTimers) : calcTimers[k] # << >>

\* The keys of a results object
KeysOf(results) == { p[1] : p \in results }

\* C19: the results a run publishes have exactly the keys of the items that
\* were selected when the run was started, one value for each, and none of
\* the other keys that were published before the run completed.
C19_ResultsFromScratch ==
    [][op' = "calculationDone" =>
          LET own == { ResultKey(x) : x \in Range(input') }
          IN  /\ KeysOf(computationResults') = own
              /\ Cardinality(computationResults') = Cardinality(own)
              /\ KeysOf(computationResults') \cap (KeysOf(computationResults) \ own) = {}
              /\ showCalculationResults']_vars

\* A run over one item completes while the selection has grown by a category
\* and a second run over the grown selection is pending: one key is published
C19_Witness ==
    /\ op = "calculationDone"
    /\ input = << "NDVI (Normalized Difference Vegetation Index)" >>
    /\ KeysOf(computationResults) = { "NDVI" }
    /\ Len(calcTimers) = 1
    /\ Len(calcTimers[1]) = 4
    /\ selectedComputations = calcTimers[1]
    /\ Includes(selectedComputations, "NDVI (Normalized Difference Vegetation Index)")

\* C20: each item of a run enters exactly one branch of the chain and gets
\* one key, two items never the same key, so that a run over n items
\* publishes n keys, for every selection up to the whole catalog of 15 items;
\* a run over the NDVI item alone publishes the key NDVI alone, with a number
\* from -1 to 1 (in units of 10^-4).
C20_OneKeyPerItem ==
    [][op' = "calculationDone" =>
          /\ \A x \in Range(input') :
               /\ Cardinality({ n \in 1..Len(Needles) : Needles[n][1] \in Occurring(x) }) = 1
               /\ ResultKey(x) \in KeysOf(computationResults')
          /\ Cardinality(KeysOf(computationResults')) = Len(input')
          /\ Cardinality(computationResults') = Len(input')
          /\ input' = << "NDVI (Normalized Difference Vegetation Index)" >> =>
               /\ KeysOf(computationResults') = { "NDVI" }
               /\ \A p \in computationResults' :
                    /\ p[2][1] = "number"
                    /\ p[2][2] >= -(10 ^ 4)
                    /\ p[2][2] <= 10 ^ 4]_vars

\* A run over the whole catalog has published its results
C20_Witness ==
    /\ op = "calculationDone"
    /\ Range(input) = Catalog
    /\ Cardinality(Catalog) = 15
    /\ Len(input) = 15
    /\ Cardinality(KeysOf(computationResults)) = 15
    /\ showCalculationResults

\* The list of results is rendered: inside the section of the computations,
\* when the results are shown and there is a key in them
ResultsVisible ==
    /\ ComputationSectionShown
    /\ showCalculationResults
    /\ computationResults # {}

\* C21: from a valid submit until the next start of a run, no results are
\* visible: those there are come from a run that was started before the
\* submit, completed or still pending at the submit.
C21_NoStaleResultsVisible == stale => ~ResultsVisible

\* The states of the request lifecycle, read from the state of App
Loading == isLoading
ValidatingFailed == ~isLoading /\ \E f \in Fields : HasMessage(errors, f)
Idle == ~Loading /\ ~ValidatingFailed /\ ~RequestFailed /\ ~Loaded

\* C22 as stated: ValidatingFailed is entered only by a submit that fails
\* validation and that is made in Idle or in Loaded.
C22_OnlyFromIdleOrLoaded ==
    [][(~ValidatingFailed /\ ValidatingFailed') =>
          /\ op' = "submitInvalid"
          /\ Idle \/ Loaded]_vars

\* C22 as the program has it: ValidatingFailed is entered only by a submit
\* that fails validation, from whatever state the Find Images button is
\* enabled in, RequestFailed among them, and never from Loading.
C22_EnteredBySubmitOnly ==
    [][(~ValidatingFailed /\ ValidatingFailed') =>
          /\ op' = "submitInvalid"
          /\ ~Loading
          /\ ~Loading'
          /\ Idle \/ Loaded \/ RequestFailed]_vars

\* The only request of the session has failed, the user has emptied a date
\* and submitted
C22_Witness ==
    /\ op = "submitInvalid"
    /\ ValidatingFailed
    /\ issued = 1
    /\ inflight = {}
    /\ loaded = Null

\* C23: after a success response that lacks one of the two descriptors the
\* session is in RequestFailed, with an error message, and not in a state
\* with one image loaded.
C23_MissingDescriptorFails ==
    op \in { "responseMalformed", "crash" } =>
        /\ ~crashed
        /\ RequestFailed
        /\ Truthy(image1Info) = Truthy(image2Info)

\* C24: while isLoading is true both image descriptors are null, and every
\* submit, valid or not, leaves them null: no image of an earlier search is
\* there while isLoading is true.
C24_NoImageWhileLoading ==
    [][/\ isLoading => image1Info = Null /\ image2Info = Null
       /\ isLoading' => image1Info' = Null /\ image2Info' = Null
       /\ op' \in SubmitOps => image1Info' = Null /\ image2Info' = Null]_vars

\* A search has loaded its images and the next valid submit is loading
C24_Witness ==
    /\ op = "submitValid"
    /\ isLoading
    /\ loaded # Null
    /\ Truthy(loaded[3])
    /\ Truthy(loaded[4])
    /\ inflight # {}
    /\ image1Info = Null
    /\ image2Info = Null

\* C25: at the rendered page a run is started only in Loaded, with both
\* descriptors present: never in Idle, Loading, ValidatingFailed or
\* RequestFailed.
C25_RunOnlyWhenLoaded ==
    [][op' = "calculate" =>
          /\ Truthy(image1Info) /\ Truthy(image2Info)
          /\ Loaded
          /\ ~Idle
          /\ ~Loading
          /\ ~ValidatingFailed
          /\ ~RequestFailed]_vars

\* The first request was rejected, the second has loaded its images, and a
\* run is started on them
C25_Witness ==
    /\ op = "calculate"
    /\ isCalculating
    /\ calcTimers # << >>
    /\ Loaded
    /\ loaded # Null
    /\ loaded[1] = 2

\* The coordinate a click denotes: the longitude normalized, both axes
\* rounded to 6 decimals
ClickedCoordinate(point) ==
    << Round6(point[1]), Round6(NormalizeLongitude(point[2])) >>

\* C26: a click leaves the fields at the clicked coordinate, normalized and
\* rounded, and the marker and the center at the coordinate the fields
\* denote, with one Center command pending for it; when that command is
\* applied the map flies to this center and no command is left.
C26_ClickCentersOnFields ==
    [][/\ op' = "click" =>
            /\ latitude' = ToFixed6(input'[1])
            /\ longitude' = ToFixed6(NormalizeLongitude(input'[2]))
            /\ markerPosition' = ClickedCoordinate(input')
            /\ mapCenter' = ClickedCoordinate(input')
            /\ Cardinality(mapTimers') = 1
            /\ \A t \in mapTimers' : t.center = ClickedCoordinate(input')
       /\ (op = "click" /\ op' = "mapUpdate") =>
            /\ viewport' = << "flyTo", ClickedCoordinate(input), FlyToZoom >>
            /\ mapTimers' = {}]_vars

\* C27: the bounds that a pending timeout of MapUpdater holds are those of
\* image 1 whenever image 1 is there with bounds, else those of image 2 when
\* it is there with bounds, else none.
C27_BoundsOfImage1First ==
    \A t \in mapTimers :
        IF Truthy(image1Info) /\ image1Info[2] # Null
        THEN t.bounds = << image1Info[2], image1Info[3] >>
        ELSE IF Truthy(image2Info) /\ image2Info[2] # Null
        THEN t.bounds = << image2Info[2], image2Info[3] >>
        ELSE t.bounds = Null

\* Both images are loaded with distinct bounds and the pending timeout holds
\* those of image 1
C27_Witness ==
    /\ op = "responseOk"
    /\ Truthy(image1Info)
    /\ Truthy(image2Info)
    /\ image1Info[2] # image2Info[2]
    /\ \E t \in mapTimers : t.bounds = << image1Info[2], image1Info[3] >>

\* C28: at the rendered page at most one request is in flight, and isLoading
\* is true exactly when one is.
C28_OneRequestInFlight ==
    /\ Cardinality(inflight) <= 1
    /\ isLoading = (inflight # {})

\* The second request of the session is in flight after the first has
\* loaded its images
C28_Witness ==
    /\ op = "submitValid"
    /\ isLoading
    /\ Ids(inflight) = { 2 }
    /\ loaded # Null
    /\ loaded[1] = 1

\* C29: whenever the results are shown and not empty, their keys are those
\* of the items that are selected now.
C29_VisibleResultsMatchSelection ==
    (showCalculationResults /\ computationResults # {}) =>
        KeysOf(computationResults)
            = { ResultKey(x) : x \in Range(selectedComputations) }

\* C30, on the states a success response leaves: a marker that is displayed
\* sits at the coordinate the latitude and longitude fields hold, also when
\* the fields were edited or the map was clicked while the request was
\* loading.
C30_MarkerAtFields ==
    (op = "responseOk" /\ markerPosition # Null) =>
        /\ CoordinateInRange(latitude, longitude)
        /\ markerPosition = << ParseFloat(latitude).v, ParseFloat(longitude).v >>

\* C31: at the rendered page an API error text that is not empty implies
\* that both image descriptors are null, and two image descriptors that are
\* present imply that the API error text is empty.
C31_ErrorExcludesImages ==
    /\ apiError # "" => (image1Info = Null /\ image2Info = Null)
    /\ (Truthy(image1Info) /\ Truthy(image2Info)) => apiError = ""

\* A request failed after an earlier pair of images had been loaded
C31_Witness ==
    /\ op = "responseFailed"
    /\ apiError # ""
    /\ loaded # Null
    /\ image1Info = Null /\ image2Info = Null

\* C32: when every item checkbox asks for checked only while its item is not
\* selected, the selection holds only items of the catalog and holds no item
\* twice, after any sequence of item toggles and category toggles.
C32_SelectionIsCatalogSet ==
    /\ Range(selectedComputations) \subseteq Catalog
    /\ NoRepeat(selectedComputations)

\* Both categories were selected in full, the first item was taken out and
\* put back: it sits once, at the end of the selection
C32_Witness ==
    /\ op = "itemToggle"
    /\ input = << "NDVI (Normalized Difference Vegetation Index)", TRUE >>
    /\ \A c \in SelectCategories : CategoryChecked(c, selectedComputations)
    /\ Len(selectedComputations) = 7
    /\ selectedComputations[7] = "NDVI (Normalized Difference Vegetation Index)"

====
